---- MODULE Spec2Model ----
(***************************************************************************)
(* A model of simple_csv: SimpleCsvReader (src/src/reader.rs) and          *)
(* SimpleCsvWriter (src/src/writer.rs).                                    *)
(*                                                                         *)
(* Characters and bytes are one-character strings; a String or a byte      *)
(* vector is a sequence of them.  Every byte of the modelled inputs is     *)
(* ASCII except the symbol BadByte, which stands for the byte 0xFF.        *)
(***************************************************************************)
EXTENDS Integers, Sequences, FiniteSets, TLC

VARIABLES
    \* ---- SimpleCsvReader (reader.rs:19-26) ----
    state,          \* ParseState
    row_data,       \* Vec<String>
    line_bytes,     \* Vec<u8>
    column_buffer,  \* String
    input_reader,   \* the BufRead source: the bytes it has not delivered yet
    options,        \* SimpleCsvReaderOptions
    \* ---- position inside next_row / process_line ----
    pc,             \* "writing", "write_failed", "idle", "pull", "scan",
                    \* "iter_ret", "panicked"
    client,         \* how the rows are asked for: "next_row" or "iterator"
    line_count,     \* local of next_row
    ci,             \* index of the next character of `line` in process_line
    \* ---- the source's behaviour ----
    reads,          \* number of read_until calls made on the source so far
    fail_at,        \* the read_until call that fails (0: the source never fails)
    fail_sticky,    \* TRUE: every read_until call from fail_at on fails
    fail_lost,      \* bytes a failing read_until takes from the source
    input0,         \* the bytes the source was constructed on
    \* ---- SimpleCsvWriter (writer.rs:29-33) ----
    writer,         \* the sink (a Vec<u8>)
    row_written,    \* bool
    w_options,      \* SimpleCsvWriterOptions
    rows,           \* the argument of write_all
    wi,             \* index of the next row handed to write
    mode,           \* "write_all": one write_all(rows) call;
                    \* "write": one write(row) call per row
    sink_fail_at,   \* the write on the sink that fails (0: the sink never fails)
    sink_partial,   \* bytes of its buffer the failing write still delivers
    sink_calls,     \* number of writes made on the sink so far
    w_calls,        \* one entry per write call that has returned
    \* ---- observation (history) ----
    trace,          \* this call: the characters scanned, each with the state it met
    pulls,          \* this call: the byte count of every read_until
    calls,          \* one entry per next_row call that has returned
    items           \* one entry per Iterator::next call that has returned

vars == << state, row_data, line_bytes, column_buffer, input_reader, options,
           pc, client, line_count, ci, reads, fail_at, fail_sticky, fail_lost,
           input0,
           writer, row_written, w_options, rows, wi, mode, sink_fail_at,
           sink_partial, sink_calls, w_calls,
           trace, pulls, calls, items >>

reader_vars == << state, row_data, line_bytes, column_buffer, input_reader,
                  options, client, line_count, ci, reads, fail_at, fail_sticky,
                  fail_lost, input0, trace, pulls, calls, items >>

writer_vars == << writer, row_written, w_options, rows, wi, mode, sink_fail_at,
                  sink_partial, sink_calls, w_calls >>

----------------------------------------------------------------------------
(* Bounds *)

MaxLen == 5          \* longest arbitrary input of the reader
MaxTokens == 4       \* size of the row sets handed to the writer
MaxExtraCalls == 2   \* next_row calls made after the first None
MaxLenOpt == 3       \* longest arbitrary input of a reader with chosen options
MaxTokensOpt == 3    \* size of the row sets handed to a writer with chosen options
MaxTokensFail == 3   \* size of the row sets handed to a writer whose sink fails
MaxSinkFail == 4     \* latest write on the sink that fails
MaxLenErr == 3       \* longest input of a reader whose source fails
MaxFailAt == 3       \* latest read on the source that fails
MaxLenIter == 4      \* longest arbitrary input read both ways, by next_row and by the iterator
MaxLenAny == 3       \* longest input of a reader whose delimiter or quote may be '\n' or '\r'

----------------------------------------------------------------------------
(* Characters *)

LF == "\n"
CR == "\r"
BadByte == "<FF>"          \* a byte that is not valid UTF-8
Replacement == "<U+FFFD>"  \* char::REPLACEMENT_CHARACTER

DefaultReaderOptions == [delimiter |-> ",", text_enclosure |-> "\""]

DefaultWriterOptions ==
    [delimiter |-> ",", text_enclosure |-> "\"", newline_type |-> "UnixStyle",
     custom |-> << >>]

\* delimiter, quote, the two line-ending characters and an ordinary character
Alphabet == {",", "\"", LF, CR, "a"}

SeqsUpTo(S, n) == UNION {[1..k -> S] : k \in 0..n}

RECURSIVE first_index(_, _, _)
first_index(s, x, i) ==
    IF i > Len(s) THEN 0
    ELSE IF s[i] = x THEN i
    ELSE first_index(s, x, i + 1)

RECURSIVE split(_, _)
split(s, sep) ==
    LET i == first_index(s, sep, 1)
    IN  IF i = 0 THEN << s >>
        ELSE << SubSeq(s, 1, i - 1) >> \o split(SubSeq(s, i + 1, Len(s)), sep)

----------------------------------------------------------------------------
(* Inputs of the tests of reader.rs and of the examples *)

T_simple ==
    << "1", ",", "2", ",", "3", "\r", "\n", "4", ",", "5", ",", "6" >>
T_quoted ==
    << "1", ",", "\"", "2", "\"", ",", "3", "\r", "\n", "4", ",", "\"", "5", "\"", ",", "6" >>
T_quote_in_quoted ==
    << "1", ",", "\"", "\"", "\"", "2", "\"", ",", "3" >>
T_newline_in_quoted ==
    << "1", ",", "\"", "2", "\"", ",", "3", "\r", "\n", "4", ",", "\"", "5", "\r", "\n", "\"", ",", "6" >>
T_eof_in_quoted ==
    << "1", ",", "2", ",", "3", "\r", "\n", "4", ",", "5", ",", "\"", "6" >>
T_data_after_quoted ==
    << "1", ",", "2", ",", "3", "\r", "\n", "4", ",", "5", ",", "\"", "6", "\"", "d", "a", "t", "a", "_", "a", "f", "t", "e", "r", "_", "q", "u", "o", "t", "e", "d", "_", "f", "i", "e", "l", "d" >>
T_newline_only_on_last_column ==
    << "1", ",", "2", ",", "3", "\r", "\n", "4", ",", "5", ",", "\r", "\n" >>
T_empty_line_in_file ==
    << "1", ",", "2", ",", "3", "\r", "\n", "\r", "\n", "4", ",", "5", ",", "6" >>
T_carriage_return_after_quoted ==
    << "1", ",", "2", ",", "\"", "3", "\"", "\r", "9", "\r", "\n", "4", ",", "5", ",", "6" >>
T_bad_utf8 == Append(T_simple, BadByte)
T_one_two_three == << "1", ",", "2", ",", "3" >>
T_tail == << "4", ",", "5", ",", "\"", "6", "\"", "t", "a", "i", "l" >>

TestInputs ==
    { T_simple, T_quoted, T_quote_in_quoted, T_newline_in_quoted,
      T_eof_in_quoted, T_data_after_quoted, T_newline_only_on_last_column,
      T_empty_line_in_file, T_carriage_return_after_quoted, T_bad_utf8,
      T_one_two_three, T_tail }

Inputs == SeqsUpTo(Alphabet, MaxLen) \cup TestInputs

----------------------------------------------------------------------------
(* The source: <&[u8] as BufRead>::read_until(b'\n', buf) *)

RECURSIVE first_newline(_, _)
first_newline(bytes, i) ==
    IF i > Len(bytes) THEN 0
    ELSE IF bytes[i] = LF THEN i
    ELSE first_newline(bytes, i + 1)

\* (mutation: the delimiter byte is ignored, everything left is delivered)
read_until_whole_input(bytes) == bytes

\* the bytes one read_until call appends to buf: up to and including the
\* first '\n', or everything that is left
read_until(bytes) ==
    LET n == first_newline(bytes, 1)
    IN  IF n = 0 THEN bytes ELSE SubSeq(bytes, 1, n)

from_utf8_lossy(bytes) ==
    [i \in DOMAIN bytes |-> IF bytes[i] = BadByte THEN Replacement ELSE bytes[i]]

----------------------------------------------------------------------------
(* SimpleCsvReader *)

\* new_column: the column buffer becomes the next field of the row
new_column(s) ==
    [state |-> "Neutral",
     row_data |-> Append(s.row_data, s.column_buffer),
     column_buffer |-> << >>]

\* (mutation: '\r' in state Neutral is taken for unquoted data)
neutral_char_keeps_cr(s, c, opts) ==
    IF c = opts.text_enclosure THEN [s EXCEPT !.state = "InQuotedField"]
    ELSE IF c = opts.delimiter
         THEN [s EXCEPT !.row_data = Append(s.row_data, << >>)]
    ELSE IF c = LF THEN [new_column(s) EXCEPT !.state = "EndOfRow"]
    ELSE [s EXCEPT !.column_buffer = Append(s.column_buffer, c),
                   !.state = "InField"]

\* (mutation: '\n' in state Neutral ends the row without pushing a column)
neutral_char_no_blank_field(s, c, opts) ==
    IF c = opts.text_enclosure THEN [s EXCEPT !.state = "InQuotedField"]
    ELSE IF c = opts.delimiter
         THEN [s EXCEPT !.row_data = Append(s.row_data, << >>)]
    ELSE IF c = LF THEN [s EXCEPT !.state = "EndOfRow"]
    ELSE IF c = CR THEN s
    ELSE [s EXCEPT !.column_buffer = Append(s.column_buffer, c),
                   !.state = "InField"]

\* process_line, `ParseState::Neutral => match c`
neutral_char(s, c, opts) ==
    IF c = opts.text_enclosure THEN [s EXCEPT !.state = "InQuotedField"]
    ELSE IF c = opts.delimiter
         THEN [s EXCEPT !.row_data = Append(s.row_data, << >>)]
    ELSE IF c = LF THEN [new_column(s) EXCEPT !.state = "EndOfRow"]
    ELSE IF c = CR THEN s
    ELSE [s EXCEPT !.column_buffer = Append(s.column_buffer, c),
                   !.state = "InField"]

\* (mutation: '\n' ends the row inside a quoted field too)
in_quoted_field_char_newline_ends(s, c, opts) ==
    IF c = opts.text_enclosure
    THEN [s EXCEPT !.state = "EncounteredQuoteInQuotedField"]
    ELSE IF c = LF THEN [new_column(s) EXCEPT !.state = "EndOfRow"]
    ELSE [s EXCEPT !.column_buffer = Append(s.column_buffer, c)]

\* process_line, `ParseState::InQuotedField => match c`
in_quoted_field_char(s, c, opts) ==
    IF c = opts.text_enclosure
    THEN [s EXCEPT !.state = "EncounteredQuoteInQuotedField"]
    ELSE [s EXCEPT !.column_buffer = Append(s.column_buffer, c)]

\* (mutation: a quote met in an unquoted field opens a quoted field)
in_field_char_quote_opens(s, c, opts) ==
    IF c = opts.text_enclosure THEN [s EXCEPT !.state = "InQuotedField"]
    ELSE IF c = opts.delimiter THEN new_column(s)
    ELSE IF c = LF THEN [new_column(s) EXCEPT !.state = "EndOfRow"]
    ELSE IF c = CR THEN s
    ELSE [s EXCEPT !.column_buffer = Append(s.column_buffer, c)]

\* (mutation: the delimiter ends the row as '\n' does)
in_field_char_delimiter_ends_row(s, c, opts) ==
    IF c = opts.delimiter \/ c = LF THEN [new_column(s) EXCEPT !.state = "EndOfRow"]
    ELSE IF c = CR THEN s
    ELSE [s EXCEPT !.column_buffer = Append(s.column_buffer, c)]

\* (mutation: ',' ends an unquoted field whatever the configured delimiter)
in_field_char_comma(s, c, opts) ==
    IF c = opts.delimiter \/ c = "," THEN new_column(s)
    ELSE IF c = LF THEN [new_column(s) EXCEPT !.state = "EndOfRow"]
    ELSE IF c = CR THEN s
    ELSE [s EXCEPT !.column_buffer = Append(s.column_buffer, c)]

\* process_line, `ParseState::InField => match c`
in_field_char(s, c, opts) ==
    IF c = opts.delimiter THEN new_column(s)
    ELSE IF c = LF THEN [new_column(s) EXCEPT !.state = "EndOfRow"]
    ELSE IF c = CR THEN s
    ELSE [s EXCEPT !.column_buffer = Append(s.column_buffer, c)]

\* (mutation: '\r' after a closing quote is taken for data of the field)
encountered_quote_char_keeps_cr(s, c, opts) ==
    IF c = opts.text_enclosure
    THEN [s EXCEPT !.column_buffer = Append(s.column_buffer, c),
                   !.state = "InQuotedField"]
    ELSE IF c = opts.delimiter THEN new_column(s)
    ELSE IF c = LF THEN [new_column(s) EXCEPT !.state = "EndOfRow"]
    ELSE [s EXCEPT !.column_buffer = Append(s.column_buffer, c),
                   !.state = "InField"]

\* (mutation: the second quote of a doubled quote is not pushed)
encountered_quote_char_no_escape(s, c, opts) ==
    IF c = opts.text_enclosure THEN [s EXCEPT !.state = "InQuotedField"]
    ELSE IF c = opts.delimiter THEN new_column(s)
    ELSE IF c = LF THEN [new_column(s) EXCEPT !.state = "EndOfRow"]
    ELSE IF c = CR THEN s
    ELSE [s EXCEPT !.column_buffer = Append(s.column_buffer, c),
                   !.state = "InField"]

\* (mutation: data after a closing quote starts a field of its own)
encountered_quote_char_new_field(s, c, opts) ==
    IF c = opts.text_enclosure
    THEN [s EXCEPT !.column_buffer = Append(s.column_buffer, c),
                   !.state = "InQuotedField"]
    ELSE IF c = opts.delimiter THEN new_column(s)
    ELSE IF c = LF THEN [new_column(s) EXCEPT !.state = "EndOfRow"]
    ELSE IF c = CR THEN s
    ELSE [new_column(s) EXCEPT !.column_buffer = << c >>, !.state = "InField"]

\* process_line, `ParseState::EncounteredQuoteInQuotedField => match c`
encountered_quote_char(s, c, opts) ==
    IF c = opts.text_enclosure
    THEN [s EXCEPT !.column_buffer = Append(s.column_buffer, c),
                   !.state = "InQuotedField"]
    ELSE IF c = opts.delimiter THEN new_column(s)
    ELSE IF c = LF THEN [new_column(s) EXCEPT !.state = "EndOfRow"]
    ELSE IF c = CR THEN s
    ELSE [s EXCEPT !.column_buffer = Append(s.column_buffer, c),
                   !.state = "InField"]

\* one iteration of the `for c in line.chars()` loop of process_line,
\* for the four states that scan; s is [state, row_data, column_buffer]
process_char(s, c, opts) ==
    CASE s.state = "Neutral" -> neutral_char(s, c, opts)
      [] s.state = "InQuotedField" -> in_quoted_field_char(s, c, opts)
      [] s.state = "InField" -> in_field_char(s, c, opts)
      [] s.state = "EncounteredQuoteInQuotedField" -> encountered_quote_char(s, c, opts)

\* the Ok(0) arm of next_row when line_count > 0: what is left in the
\* column buffer becomes the last field
eof_flush(s) ==
    IF s.column_buffer # << >> THEN new_column(s) ELSE s

\* (mutation: at the end of input the call returns None whatever it has read)
eof_returns_row_never(lc) == FALSE

\* (mutation: the row of a call that processed exactly one line is dropped)
eof_returns_row_second_line(lc) == lc > 1

\* the Ok(0) arm of next_row: a row is returned when a line was processed
\* in this call, None otherwise
eof_returns_row(lc) == lc > 0

\* (mutation: the loop of next_row does not stop at the end of the row)
row_complete_never(st) == FALSE

\* `if let ParseState::EndOfRow = self.state { break; }`
row_complete(st) == st = "EndOfRow"

Scanner == [state |-> state, row_data |-> row_data, column_buffer |-> column_buffer]

line == from_utf8_lossy(line_bytes)

\* the calls made through the present client that returned None, or an error
NoneCount ==
    Cardinality({i \in DOMAIN calls :
                    calls[i].kind = "none" /\ calls[i].client = client})

ErrCount ==
    Cardinality({i \in DOMAIN calls :
                    calls[i].kind = "err" /\ calls[i].client = client})

\* the entry the history keeps of a call that returns
\* (row: the row_data the caller sees; end_state, scanned_row, pending: state,
\* row_data and column_buffer when the loop was left, before any flush)
Returned(kind, s, tr, pl) ==
    [kind |-> kind, row |-> s.row_data, end_state |-> state,
     scanned_row |-> row_data, pending |-> column_buffer,
     trace |-> tr, pulls |-> pl, client |-> client]

\* where a return of next_row leads: to the client, or back into Iterator::next
ReturnPc == IF client = "iterator" THEN "iter_ret" ELSE "idle"

\* the r-th read_until call on the source fails
Fails(r) == fail_at # 0 /\ (r = fail_at \/ (fail_sticky /\ r >= fail_at))

\* the bytes a failing read_until has taken from the source and appended to
\* buf before the error: none of them is the '\n' it was reading up to
lost_bytes(bytes, n) ==
    LET chunk == read_until(bytes)
        before == IF chunk # << >> /\ chunk[Len(chunk)] = LF
                  THEN Len(chunk) - 1 ELSE Len(chunk)
    IN  SubSeq(bytes, 1, IF n < before THEN n ELSE before)

\* (mutation: next_row does not truncate the row at its entry)
ResetState_keeps_row ==
    /\ row_data' = row_data
    /\ state' = "Neutral"
    /\ line_count' = 0
    /\ pc' = "pull"
    /\ trace' = << >>
    /\ pulls' = << >>
    /\ UNCHANGED << line_bytes, column_buffer, input_reader, options, client,
                    ci, reads, fail_at, fail_sticky, fail_lost, input0, calls,
                    items >>
    /\ UNCHANGED writer_vars

\* next_row, "Reset state"
ResetState ==
    /\ row_data' = << >>
    /\ state' = "Neutral"
    /\ line_count' = 0
    /\ pc' = "pull"
    /\ trace' = << >>
    /\ pulls' = << >>
    /\ UNCHANGED << line_bytes, column_buffer, input_reader, options, client,
                    ci, reads, fail_at, fail_sticky, fail_lost, input0, calls,
                    items >>
    /\ UNCHANGED writer_vars

\* the client calls next_row: entry of next_row
NextRow ==
    /\ pc = "idle"
    /\ client = "next_row"
    /\ NoneCount <= MaxExtraCalls
    /\ ErrCount <= MaxExtraCalls
    /\ ResetState

\* the client calls Iterator::next, which calls next_row: entry of next_row
IterNext ==
    /\ pc = "idle"
    /\ client = "iterator"
    /\ NoneCount <= MaxExtraCalls
    /\ ErrCount <= MaxExtraCalls
    /\ ResetState

\* next_row, one turn of the loop up to the match on line_result
ReadUntil ==
    /\ pc = "pull"
    /\ reads' = reads + 1
    /\ IF Fails(reads + 1)
       THEN \* Err(e) => return Some(Err(e))
            LET lost == lost_bytes(input_reader, fail_lost)
            IN  /\ line_bytes' = lost
                /\ input_reader' = SubSeq(input_reader, Len(lost) + 1, Len(input_reader))
                /\ pc' = ReturnPc
                /\ pulls' = pulls
                /\ calls' = Append(calls,
                       Returned("err", Scanner, trace, pulls))
                /\ UNCHANGED << state, row_data, column_buffer, line_count, ci >>
       ELSE LET chunk == read_until(input_reader)
                pl == Append(pulls, Len(chunk))
            IN  /\ line_bytes' = chunk
                /\ input_reader' = SubSeq(input_reader, Len(chunk) + 1, Len(input_reader))
                /\ pulls' = pl
                /\ IF Len(chunk) > 0
                   THEN \* Ok(bytes_read) if bytes_read > 0
                        /\ line_count' = line_count + 1
                        /\ ci' = 1
                        /\ pc' = "scan"
                        /\ UNCHANGED << state, row_data, column_buffer, calls >>
                   ELSE \* Ok(..): end of input
                        /\ pc' = ReturnPc
                        /\ UNCHANGED << line_count, ci >>
                        /\ IF eof_returns_row(line_count)
                           THEN LET s == eof_flush(Scanner)
                                IN  /\ state' = s.state
                                    /\ row_data' = s.row_data
                                    /\ column_buffer' = s.column_buffer
                                    /\ calls' = Append(calls,
                                         Returned("ok", s, trace, pl))
                           ELSE /\ UNCHANGED << state, row_data, column_buffer >>
                                /\ calls' = Append(calls,
                                     Returned("none", Scanner, trace, pl))
    /\ UNCHANGED << options, client, fail_at, fail_sticky, fail_lost, input0,
                    trace, items >>
    /\ UNCHANGED writer_vars

\* process_line, one character
ProcessChar ==
    /\ pc = "scan"
    /\ ci <= Len(line)
    /\ LET c == line[ci]
       IN  /\ trace' = Append(trace, [s |-> state, c |-> c])
           /\ IF state = "EndOfRow"
              THEN \* assert!(false, "Should never reach match for EndOfRow")
                   /\ pc' = "panicked"
                   /\ UNCHANGED << state, row_data, column_buffer, ci >>
              ELSE LET s == process_char(Scanner, c, options)
                   IN  /\ state' = s.state
                       /\ row_data' = s.row_data
                       /\ column_buffer' = s.column_buffer
                       /\ ci' = ci + 1
                       /\ pc' = "scan"
    /\ UNCHANGED << line_bytes, input_reader, options, client, line_count, reads,
                    fail_at, fail_sticky, fail_lost, input0, pulls, calls, items >>
    /\ UNCHANGED writer_vars

\* process_line has returned: leave the loop at the end of the row, or pull again
ProcessLineDone ==
    /\ pc = "scan"
    /\ ci > Len(line)
    /\ IF row_complete(state)
       THEN /\ pc' = ReturnPc
            /\ calls' = Append(calls,
                   Returned("ok", Scanner, trace, pulls))
       ELSE /\ pc' = "pull"
            /\ UNCHANGED calls
    /\ UNCHANGED << state, row_data, line_bytes, column_buffer, input_reader,
                    options, client, line_count, ci, reads, fail_at, fail_sticky,
                    fail_lost, input0, trace, pulls, items >>
    /\ UNCHANGED writer_vars

\* (mutation: the item is taken from the vector that was just installed)
iter_yield_fresh(row) == << >>

\* Iterator::next, the Some(Ok(..)) arm: `replace(&mut self.row_data, ..)`
\* gives the row that next_row has assembled
iter_yield(row) == row

\* Iterator::next, the match on what next_row returned
IterReturn ==
    /\ pc = "iter_ret"
    /\ LET e == calls[Len(calls)]
       IN  IF e.kind = "ok"
           THEN /\ items' = Append(items, [kind |-> "ok", row |-> iter_yield(row_data)])
                /\ row_data' = << >>
           ELSE /\ items' = Append(items, [kind |-> e.kind, row |-> << >>])
                /\ UNCHANGED row_data
    /\ pc' = "idle"
    /\ UNCHANGED << state, line_bytes, column_buffer, input_reader, options,
                    client, line_count, ci, reads, fail_at, fail_sticky,
                    fail_lost, input0, trace, pulls, calls >>
    /\ UNCHANGED writer_vars

----------------------------------------------------------------------------
(* SimpleCsvWriter *)

RECURSIVE concat(_)
concat(chunks) ==
    IF chunks = << >> THEN << >> ELSE Head(chunks) \o concat(Tail(chunks))

\* the line terminator write emits before every row but the first
newline_bytes(opts) ==
    CASE opts.newline_type = "UnixStyle" -> << LF >>
      [] opts.newline_type = "WindowsStyle" -> << CR, LF >>
      [] OTHER -> opts.custom

\* (mutation: '\r' does not make the writer quote the field)
needs_quoting_no_cr(c, opts) ==
    c = opts.text_enclosure \/ c = opts.delimiter \/ c = LF

\* `c == text_enclosure || c == delimiter || c == '\n' || c == '\r'`
needs_quoting(c, opts) ==
    c = opts.text_enclosure \/ c = opts.delimiter \/ c = LF \/ c = CR

\* (mutation: a quote inside a quoted field is written once)
RECURSIVE write_column_no_doubling(_, _, _, _, _)
write_column_no_doubling(column, i, is_quoted, opts, out) ==
    IF i > Len(column)
    THEN IF is_quoted THEN Append(out, << opts.text_enclosure >>)
                      ELSE Append(out, column)
    ELSE LET c == column[i]
         IN  IF ~is_quoted
             THEN IF needs_quoting(c, opts)
                  THEN write_column_no_doubling(column, i, TRUE, opts,
                           out \o << << opts.text_enclosure >>, SubSeq(column, 1, i - 1) >>)
                  ELSE write_column_no_doubling(column, i + 1, FALSE, opts, out)
             ELSE write_column_no_doubling(column, i + 1, TRUE, opts, Append(out, << c >>))

\* the `while let Some((byte_index, c)) = char_option` loop of write and the
\* match that follows it: the sink writes one column causes, in order, added
\* to out.  i is the position of char_option in the column.
RECURSIVE write_column(_, _, _, _, _)
write_column(column, i, is_quoted, opts, out) ==
    IF i > Len(column)
    THEN IF is_quoted THEN Append(out, << opts.text_enclosure >>)
                      ELSE Append(out, column)
    ELSE LET c == column[i]
         IN  IF ~is_quoted
             THEN IF needs_quoting(c, opts)
                  THEN \* `continue`: the iterator is not advanced
                       write_column(column, i, TRUE, opts,
                           out \o << << opts.text_enclosure >>, SubSeq(column, 1, i - 1) >>)
                  ELSE write_column(column, i + 1, FALSE, opts, out)
             ELSE IF c = opts.text_enclosure
                  THEN write_column(column, i + 1, TRUE, opts, out \o << << c >>, << c >> >>)
                  ELSE write_column(column, i + 1, TRUE, opts, Append(out, << c >>))

\* the `for column in row.iter()` loop of write, from column k on
RECURSIVE write_columns(_, _, _, _)
write_columns(row, k, opts, out) ==
    IF k > Len(row) THEN out
    ELSE write_columns(row, k + 1, opts,
             write_column(row[k], 1, FALSE, opts,
                 IF k # 1 THEN Append(out, << opts.delimiter >>) ELSE out))

\* (mutation: the line terminator is written before the first row too)
write_calls_newline_first(row, opts, rw) ==
    write_columns(row, 1, opts, << newline_bytes(opts) >>)

\* every write one call of SimpleCsvWriter::write makes on the sink, in order
write_calls(row, opts, rw) ==
    write_columns(row, 1, opts, IF rw THEN << newline_bytes(opts) >> ELSE << >>)

\* the n-th write on the sink fails
SinkFails(n) == sink_fail_at # 0 /\ n = sink_fail_at

\* (mutation: the error of a sink write is dropped and the call goes on)
RECURSIVE sink_write_all_ignores_error(_, _, _, _)
sink_write_all_ignores_error(chunks, k, n, out) ==
    IF k > Len(chunks) THEN [ok |-> TRUE, bytes |-> out, n |-> n]
    ELSE IF chunks[k] = << >>
         THEN sink_write_all_ignores_error(chunks, k + 1, n, out)
    ELSE IF SinkFails(n + 1)
         THEN sink_write_all_ignores_error(chunks, k + 1, n + 1, out)
    ELSE sink_write_all_ignores_error(chunks, k + 1, n + 1, out \o chunks[k])

\* the `try!(..write..)` of write, in order, from the k-th on: n writes were
\* made on the sink before, out is what this call has delivered.  A write of
\* no bytes does not reach the sink; a failing write delivers sink_partial
\* bytes at most, not all of its buffer, and ends the call with its error.
RECURSIVE sink_write_all(_, _, _, _)
sink_write_all(chunks, k, n, out) ==
    IF k > Len(chunks) THEN [ok |-> TRUE, bytes |-> out, n |-> n]
    ELSE IF chunks[k] = << >> THEN sink_write_all(chunks, k + 1, n, out)
    ELSE IF SinkFails(n + 1)
         THEN LET m == IF sink_partial < Len(chunks[k])
                       THEN sink_partial ELSE Len(chunks[k]) - 1
              IN  [ok |-> FALSE, bytes |-> out \o SubSeq(chunks[k], 1, m), n |-> n + 1]
    ELSE sink_write_all(chunks, k + 1, n + 1, out \o chunks[k])

\* (mutation: write_all goes on with the next row after a failed write)
write_all_stops_never(ok, md) == FALSE

\* write_all, `try!(self.write(&*row))`: the error of write ends write_all
write_all_stops(ok, md) == ~ok /\ md = "write_all"

\* (mutation: the flag is set by a call of write that fails, too)
row_written_after_always(ok, rw) == TRUE

\* `self.row_written = true; Ok(())`: reached only when no write has failed
row_written_after(ok, rw) == IF ok THEN TRUE ELSE rw

\* one call of write, made by write_all for its next row or by the client
Write ==
    /\ pc = "writing"
    /\ wi <= Len(rows)
    /\ LET r == sink_write_all(write_calls(rows[wi], w_options, row_written),
                               1, sink_calls, << >>)
       IN  /\ writer' = writer \o r.bytes
           /\ sink_calls' = r.n
           /\ row_written' = row_written_after(r.ok, row_written)
           /\ w_calls' = Append(w_calls,
                  [row |-> wi, ok |-> r.ok, bytes |-> r.bytes,
                   row_written |-> row_written, writes |-> r.n - sink_calls])
           /\ IF write_all_stops(r.ok, mode)
              THEN pc' = "write_failed" /\ wi' = wi
              ELSE pc' = pc /\ wi' = wi + 1
    /\ UNCHANGED << w_options, rows, mode, sink_fail_at, sink_partial >>
    /\ UNCHANGED reader_vars

\* write_all has returned Ok: as_inner hands the sink over and a reader with
\* the reader options is constructed on its bytes
OpenReader ==
    /\ pc = "writing"
    /\ wi > Len(rows)
    /\ input_reader' = writer
    /\ input0' = writer
    /\ pc' = "idle"
    /\ UNCHANGED << state, row_data, line_bytes, column_buffer, options, client,
                    line_count, ci, reads, fail_at, fail_sticky, fail_lost,
                    trace, pulls, calls, items >>
    /\ UNCHANGED writer_vars

----------------------------------------------------------------------------
(* The reader over an arbitrary input, default options, a source that never fails *)

\* SimpleCsvReader::with_options
ReaderInit(bytes, opts) ==
    /\ state = "Neutral"
    /\ row_data = << >>
    /\ line_bytes = << >>
    /\ column_buffer = << >>
    /\ input_reader = bytes
    /\ input0 = bytes
    /\ options = opts
    /\ line_count = 0
    /\ ci = 1
    /\ reads = 0
    /\ trace = << >>
    /\ pulls = << >>
    /\ calls = << >>
    /\ items = << >>

\* SimpleCsvWriter::with_options
WriterInit(opts, rs) ==
    /\ writer = << >>
    /\ row_written = FALSE
    /\ w_options = opts
    /\ rows = rs
    /\ wi = 1
    /\ sink_calls = 0
    /\ w_calls = << >>

\* a source and a sink that never fail
NoFailures ==
    /\ fail_at = 0
    /\ fail_sticky = FALSE
    /\ fail_lost = 0
    /\ sink_fail_at = 0
    /\ sink_partial = 0

Init ==
    /\ \E bytes \in Inputs : ReaderInit(bytes, DefaultReaderOptions)
    /\ NoFailures
    /\ pc = "idle"
    /\ client = "next_row"
    /\ mode = "write_all"
    /\ WriterInit(DefaultWriterOptions, << >>)

Next == NextRow \/ ReadUntil \/ ProcessChar \/ ProcessLineDone

Spec == Init /\ [][Next]_vars

----------------------------------------------------------------------------
(* Round trip: rows are written with default options, then read back *)

FieldSep == "<field>"
RowSep == "<row>"

\* every sequence of rows, each of one or more fields, that MaxTokens
\* characters and separators spell, and the empty sequence of rows
RowSets ==
    { [i \in DOMAIN split(t, RowSep) |-> split(split(t, RowSep)[i], FieldSep)] :
        t \in SeqsUpTo(Alphabet \cup {FieldSep, RowSep}, MaxTokens) }
    \cup { << >> }

InitRT ==
    /\ ReaderInit(<< >>, DefaultReaderOptions)
    /\ NoFailures
    /\ pc = "writing"
    /\ client = "next_row"
    /\ mode = "write_all"
    /\ \E rs \in RowSets : WriterInit(DefaultWriterOptions, rs)

NextRT == Write \/ OpenReader \/ NextRow \/ ReadUntil \/ ProcessChar \/ ProcessLineDone

SpecRT == InitRT /\ [][NextRT]_vars

----------------------------------------------------------------------------
(* Chosen options: a reader over an arbitrary input, or a writer over rows *)

ReaderOptionSets ==
    { [delimiter |-> d, text_enclosure |-> q] : d \in {",", "|"}, q \in {"\"", "#"} }

WriterOptionSets ==
    { DefaultWriterOptions,
      [DefaultWriterOptions EXCEPT !.newline_type = "WindowsStyle"],
      [DefaultWriterOptions EXCEPT !.newline_type = "Custom", !.custom = << ";", ";" >>],
      [DefaultWriterOptions EXCEPT !.delimiter = "|"],
      [DefaultWriterOptions EXCEPT !.text_enclosure = "#"],
      [DefaultWriterOptions EXCEPT !.delimiter = "|", !.text_enclosure = "#",
                                   !.newline_type = "WindowsStyle"] }

AlphabetOpt == {",", "\"", "|", "#", LF, "a"}

\* reader_different_delimiter and reader_custom_text_enclosing_char
T_different_delimiter ==
    << "1", "|", "2", "|", "3", "\r", "\n", "4", "|", "5", "|", "6" >>
T_custom_text_enclosing_char ==
    << "1", ",", "#", "2", "#", ",", "3", "\r", "\n", "#", "4", "#", ",", "5", ",", "6" >>

InputsOpt ==
    SeqsUpTo(AlphabetOpt, MaxLenOpt)
        \cup { T_different_delimiter, T_custom_text_enclosing_char }

RowSetsOpt ==
    { [i \in DOMAIN split(t, RowSep) |-> split(split(t, RowSep)[i], FieldSep)] :
        t \in SeqsUpTo(AlphabetOpt \cup {CR, FieldSep, RowSep}, MaxTokensOpt) }
    \cup { << >> }

InitOpt ==
    /\ NoFailures
    /\ client = "next_row"
    /\ \/ /\ pc = "idle"
          /\ \E bytes \in InputsOpt, opts \in ReaderOptionSets : ReaderInit(bytes, opts)
          /\ WriterInit(DefaultWriterOptions, << >>)
          /\ mode = "write_all"
       \/ /\ pc = "writing"
          /\ ReaderInit(<< >>, DefaultReaderOptions)
          /\ \E rs \in RowSetsOpt, opts \in WriterOptionSets : WriterInit(opts, rs)
          /\ mode = "write_all"

NextOpt == Write \/ NextRow \/ ReadUntil \/ ProcessChar \/ ProcessLineDone

SpecOpt == InitOpt /\ [][NextOpt]_vars

----------------------------------------------------------------------------
(* A writer over a sink one of whose writes fails *)

RowSetsFail ==
    { [i \in DOMAIN split(t, RowSep) |-> split(split(t, RowSep)[i], FieldSep)] :
        t \in SeqsUpTo(Alphabet \cup {FieldSep, RowSep}, MaxTokensFail) }

\* the rows are handed to write_all, or to write one by one by a client that
\* goes on after an error
InitFail ==
    /\ ReaderInit(<< >>, DefaultReaderOptions)
    /\ fail_at = 0 /\ fail_sticky = FALSE /\ fail_lost = 0
    /\ sink_fail_at \in 1..MaxSinkFail
    /\ sink_partial \in {0, 1}
    /\ pc = "writing"
    /\ client = "next_row"
    /\ mode \in {"write_all", "write"}
    /\ \E rs \in RowSetsFail,
          opts \in {DefaultWriterOptions,
                    [DefaultWriterOptions EXCEPT !.newline_type = "WindowsStyle"]} :
            WriterInit(opts, rs)

NextFail == Write

SpecFail == InitFail /\ [][NextFail]_vars

----------------------------------------------------------------------------
(* A reader, called through next_row or through Iterator::next, over a source
   one of whose reads fails (from then on, or that once) *)

\* a record with a completed field and a quoted field open over two lines
AbandonedRowInput == << ",", "\"", LF, "a" >>

InitErr ==
    /\ \E bytes \in SeqsUpTo(Alphabet, MaxLenErr) \cup {AbandonedRowInput} :
          ReaderInit(bytes, DefaultReaderOptions)
    /\ fail_at \in 1..MaxFailAt
    /\ fail_sticky \in BOOLEAN
    /\ fail_lost \in {0, 1}
    /\ sink_fail_at = 0 /\ sink_partial = 0
    /\ pc = "idle"
    /\ client \in {"next_row", "iterator"}
    /\ mode = "write_all"
    /\ WriterInit(DefaultWriterOptions, << >>)

NextErr ==
    NextRow \/ IterNext \/ IterReturn \/ ReadUntil \/ ProcessChar \/ ProcessLineDone

SpecErr == InitErr /\ [][NextErr]_vars

----------------------------------------------------------------------------
(* Two readers over the same input with the same options: the first is
   called through next_row, the second through Iterator::next *)

\* SimpleCsvReader::with_options for the second reader, once the client of
\* the first has seen the end of the input: the history of the first is kept
OpenIterator ==
    /\ pc = "idle"
    /\ client = "next_row"
    /\ NoneCount > MaxExtraCalls
    /\ client' = "iterator"
    /\ state' = "Neutral"
    /\ row_data' = << >>
    /\ line_bytes' = << >>
    /\ column_buffer' = << >>
    /\ input_reader' = input0
    /\ line_count' = 0
    /\ ci' = 1
    /\ reads' = 0
    /\ trace' = << >>
    /\ pulls' = << >>
    /\ UNCHANGED << options, pc, fail_at, fail_sticky, fail_lost, input0, calls, items >>
    /\ UNCHANGED writer_vars

InitIter ==
    /\ \E bytes \in SeqsUpTo(Alphabet, MaxLenIter) \cup TestInputs :
          ReaderInit(bytes, DefaultReaderOptions)
    /\ NoFailures
    /\ pc = "idle"
    /\ client = "next_row"
    /\ mode = "write_all"
    /\ WriterInit(DefaultWriterOptions, << >>)

NextIter ==
    \/ NextRow \/ ReadUntil \/ ProcessChar \/ ProcessLineDone
    \/ OpenIterator \/ IterNext \/ IterReturn

SpecIter == InitIter /\ [][NextIter]_vars

----------------------------------------------------------------------------
(* A reader over an arbitrary input whose delimiter and quote are any two
   characters, '\n' and '\r' among them, equal or not *)

ReaderOptionSetsAny ==
    { [delimiter |-> d, text_enclosure |-> q] : d \in {",", LF, CR}, q \in {"\"", LF, CR} }

InitAny ==
    /\ \E bytes \in SeqsUpTo(Alphabet, MaxLenAny), opts \in ReaderOptionSetsAny :
          ReaderInit(bytes, opts)
    /\ NoFailures
    /\ pc = "idle"
    /\ client = "next_row"
    /\ mode = "write_all"
    /\ WriterInit(DefaultWriterOptions, << >>)

NextAny == NextRow \/ ReadUntil \/ ProcessChar \/ ProcessLineDone

SpecAny == InitAny /\ [][NextAny]_vars

----------------------------------------------------------------------------
(* What the history says about a call that has returned *)

Last(s) == s[Len(s)]

\* the characters the call scanned, in order
Consumed(e) == [i \in DOMAIN e.trace |-> e.trace[i].c]

\* the call left its loop because the source had no more bytes
EndedAtEof(e) == e.pulls # << >> /\ Last(e.pulls) = 0

\* the characters of the call without the '\n' that ended the row
Record(e) ==
    LET c == Consumed(e)
    IN  IF c # << >> /\ Last(c) = LF THEN SubSeq(c, 1, Len(c) - 1) ELSE c

OkRows == [i \in DOMAIN calls |-> calls[i].row]

Kinds == [i \in DOMAIN calls |-> calls[i].kind]

\* the assertions of the tests of reader.rs (lines 239-373)
TestsPass ==
    LET all == concat([i \in DOMAIN calls |-> Consumed(calls[i])])
        r123 == << <<"1">>, <<"2">>, <<"3">> >>
        r456 == << <<"4">>, <<"5">>, <<"6">> >>
        Is(input, expected) ==
            (all = from_utf8_lossy(input) /\ input_reader = << >> /\ pc = "idle"
                /\ Len(calls) = Len(expected) + 1)
            => (/\ SubSeq(OkRows, 1, Len(expected)) = expected
                /\ \A i \in 1..Len(expected) : calls[i].kind = "ok"
                /\ Last(calls).kind = "none")
    IN  /\ Is(T_simple, << r123, r456 >>)
        /\ Is(T_quoted, << r123, r456 >>)
        /\ Is(T_quote_in_quoted, << << <<"1">>, <<"\"", "2">>, <<"3">> >> >>)
        /\ Is(T_newline_in_quoted,
              << r123, << <<"4">>, <<"5", CR, LF>>, <<"6">> >> >>)
        /\ Is(T_eof_in_quoted, << r123, r456 >>)
        /\ Is(T_data_after_quoted,
              << r123, << <<"4">>, <<"5">>,
                          <<"6", "d", "a", "t", "a", "_", "a", "f", "t", "e", "r", "_",
                            "q", "u", "o", "t", "e", "d", "_", "f", "i", "e", "l", "d">> >> >>)
        /\ Is(T_newline_only_on_last_column, << r123, << <<"4">>, <<"5">>, << >> >> >>)
        /\ Is(T_empty_line_in_file, << r123, << << >> >>, r456 >>)
        /\ Is(T_carriage_return_after_quoted,
              << << <<"1">>, <<"2">>, <<"3", "9">> >>, r456 >>)
        /\ Is(T_bad_utf8, << r123, << <<"4">>, <<"5">>, <<"6", Replacement>> >> >>)

----------------------------------------------------------------------------
(* Claims *)

\* C1: round trip.  The rows written with default options and read back
\* with default options come back as Some(Ok(row)), one call per row, equal
\* to the original rows and in their order, and every later call is None.
C1_RoundTrip ==
    \A i \in DOMAIN calls :
        IF i <= Len(rows)
        THEN calls[i].kind = "ok" /\ calls[i].row = rows[i]
        ELSE calls[i].kind = "none"

\* C2: a call returns None if and only if its first pull yields zero bytes;
\* a call that pulls a non-empty chunk and meets no read error returns
\* Some(Ok(row)) (and does return).
C2_NoneIffFirstPullEmpty ==
    /\ pc # "panicked"
    /\ \A i \in DOMAIN calls :
        LET e == calls[i]
        IN  /\ e.kind = "none" <=> (e.pulls # << >> /\ e.pulls[1] = 0)
            /\ ((\E j \in DOMAIN e.pulls : e.pulls[j] > 0) /\ e.kind # "err")
                   => e.kind = "ok"

C2_Witness ==
    /\ pc = "idle"
    /\ Len(calls) >= 2
    /\ calls[1].kind = "ok" /\ Len(calls[1].pulls) >= 2 /\ calls[1].pulls[1] > 0
    /\ calls[2].kind = "none" /\ calls[2].pulls = << 0 >>

\* C3: when the input ends without a trailing line terminator, the final
\* partial record is returned exactly once, as Some(Ok(row)); the row is the
\* fields completed before the end of input followed by the unterminated last
\* field; the call right after it returns None.
C3_FinalPartialRecord ==
    \A i \in DOMAIN calls :
        LET e == calls[i]
        IN  (e.kind = "ok" /\ EndedAtEof(e)) =>
                /\ e.row = Append(e.scanned_row, e.pending)
                /\ (i + 1) \in DOMAIN calls => calls[i + 1].kind = "none"
                /\ \A j \in DOMAIN calls :
                       (calls[j].kind = "ok" /\ EndedAtEof(calls[j])) => j = i

\* C4: with a source whose reads never fail, every call returns Some(Ok(row))
\* or None, whatever the input: never Some(Err), and the scanner never aborts.
C4_NoMalformedCsvFailure ==
    /\ pc # "panicked"
    /\ \A i \in DOMAIN calls : calls[i].kind \in {"ok", "none"}

C4_Witness ==
    /\ pc = "idle"
    /\ input_reader = << >>
    /\ calls # << >>
    /\ Last(calls).kind = "none"
    /\ {",", "\"", LF, CR} \subseteq
           UNION { { calls[i].trace[j].c : j \in DOMAIN calls[i].trace } : i \in DOMAIN calls }

\* C5: a non-empty record without quote character and without '\r' comes
\* back as the substrings between its delimiters, (number of delimiters) + 1
\* fields, whether '\n' or the end of input ends it.
C5_EmptyFieldsKept ==
    \A i \in DOMAIN calls :
        LET e == calls[i]
            rec == Record(e)
        IN  (/\ e.kind = "ok"
             /\ rec # << >>
             /\ \A j \in DOMAIN rec : rec[j] \notin {options.text_enclosure, CR})
            => e.row = split(rec, options.delimiter)

\* the character process_line is about to scan is one of C, met in state st
Scanning(st, C) ==
    /\ pc = "scan"
    /\ ci <= Len(line)
    /\ state = st
    /\ line[ci] \in C

\* the step closes the field: the column buffer becomes the next field of
\* the row and the scanner goes to state st
Closes(st) ==
    /\ row_data' = Append(row_data, column_buffer)
    /\ column_buffer' = << >>
    /\ state' = st

\* the step appends the character it scans to the field and goes to state st
Appends(st) ==
    /\ column_buffer' = Append(column_buffer, line[ci])
    /\ row_data' = row_data
    /\ state' = st

\* the character is none of quote, delimiter, '\n', '\r'
Ordinary(c) == c \notin {options.text_enclosure, options.delimiter, LF, CR}

\* process_line is about to scan such a character in state st
ScanningOrdinary(st) ==
    /\ pc = "scan"
    /\ ci <= Len(line)
    /\ state = st
    /\ Ordinary(line[ci])

\* C6: inside a quoted field the first of two consecutive quote characters
\* adds nothing and the second adds one quote character, the scanner staying
\* inside the quoted field; a quote followed by a delimiter or by '\n' closes
\* the field; `1,"""2",3` gives ["1", "\"2", "3"].
C6_DoubledQuote ==
    /\ [][ /\ Scanning("InQuotedField", {options.text_enclosure}) =>
                /\ state' = "EncounteredQuoteInQuotedField"
                /\ column_buffer' = column_buffer
                /\ row_data' = row_data
           /\ Scanning("EncounteredQuoteInQuotedField", {options.text_enclosure}) =>
                Appends("InQuotedField")
           /\ Scanning("EncounteredQuoteInQuotedField", {options.delimiter}) =>
                Closes("Neutral")
           /\ Scanning("EncounteredQuoteInQuotedField", {LF}) =>
                Closes("EndOfRow") ]_vars
    /\ [](\A i \in DOMAIN calls :
             (calls[i].kind = "ok" /\ Consumed(calls[i]) = T_quote_in_quoted)
                 => calls[i].row = << <<"1">>, <<"\"", "2">>, <<"3">> >>)

C6_Witness ==
    \E i \in DOMAIN calls :
        /\ calls[i].kind = "ok"
        /\ Consumed(calls[i]) = T_quote_in_quoted
        /\ \E j \in DOMAIN calls[i].trace :
              /\ calls[i].trace[j] = [s |-> "EncounteredQuoteInQuotedField", c |-> "\""]
              /\ calls[i].trace[j - 1] = [s |-> "InQuotedField", c |-> "\""]

\* '\n' characters of a trace that were scanned inside a quoted field
QuotedNewlines(tr) ==
    {j \in DOMAIN tr : tr[j].c = LF /\ tr[j].s = "InQuotedField"}

\* the second record of the input of reader_newline_in_quoted_csv_test
T_newline_in_quoted_2 == SubSeq(T_newline_in_quoted, 10, 18)

\* C7: a delimiter, '\n' or '\r' scanned inside a quoted field is appended to
\* the field and the scan goes on in the quoted field; the call pulls again
\* after a chunk that ends inside the quotes; the row ends only at the first
\* '\n' scanned outside a quoted field, or at the end of input.
C7_NewlineInQuotedField ==
    /\ [][ Scanning("InQuotedField", {options.delimiter, LF, CR}) =>
               (Appends("InQuotedField") /\ pc' = "scan") ]_vars
    /\ [](\A i \in DOMAIN calls :
            LET e == calls[i]
            IN  e.kind = "ok" =>
                  /\ \A j \in DOMAIN e.trace :
                        (e.trace[j].c = LF /\ e.trace[j].s # "InQuotedField")
                            => j = Len(e.trace)
                  /\ \/ EndedAtEof(e)
                     \/ /\ e.trace # << >>
                        /\ Last(e.trace).c = LF
                        /\ Last(e.trace).s # "InQuotedField"
                  /\ Len(e.pulls) >= Cardinality(QuotedNewlines(e.trace)) + 1
                  /\ Consumed(e) = T_newline_in_quoted_2
                        => e.row = << <<"4">>, <<"5", CR, LF>>, <<"6">> >>)

C7_Witness ==
    \E i \in DOMAIN calls :
        /\ calls[i].kind = "ok"
        /\ Consumed(calls[i]) = T_newline_in_quoted_2
        /\ QuotedNewlines(calls[i].trace) # {}
        /\ Len(calls[i].pulls) = 3

\* the characters a trace that ends inside a quoted field has scanned since
\* the opening quote, the first quote of every doubled quote left out
QuotedContent(tr) ==
    LET opening == {j \in DOMAIN tr :
                       tr[j].s = "Neutral" /\ tr[j].c = options.text_enclosure}
        k == CHOOSE j \in opening : \A m \in opening : m <= j
        Kept(x) == ~(x.s = "InQuotedField" /\ x.c = options.text_enclosure)
        kept == SelectSeq(SubSeq(tr, k + 1, Len(tr)), Kept)
    IN  [j \in DOMAIN kept |-> kept[j].c]

\* C8: when the input ends inside a quoted field, the call returns
\* Some(Ok(row)); the last field of the row is the unterminated quoted field,
\* holding what was read since the opening quote; the next call returns None.
C8_UnterminatedQuotedField ==
    \A i \in DOMAIN calls :
        LET e == calls[i]
        IN  (EndedAtEof(e) /\ e.end_state = "InQuotedField") =>
                /\ e.kind = "ok"
                /\ e.row = Append(e.scanned_row, QuotedContent(e.trace))
                /\ (i + 1) \in DOMAIN calls => calls[i + 1].kind = "none"

\* C9: a character that follows a closing quote and is none of quote,
\* delimiter, '\n', '\r' is appended to the field after the quoted content and
\* the scanner goes on as in an unquoted field; `4,5,"6"tail` gives `6tail`.
C9_DataAfterClosingQuote ==
    /\ [][ ScanningOrdinary("EncounteredQuoteInQuotedField") =>
               Appends("InField") ]_vars
    /\ [](\A i \in DOMAIN calls :
             (calls[i].kind = "ok" /\ Consumed(calls[i]) = T_tail)
                 => calls[i].row = << <<"4">>, <<"5">>, <<"6", "t", "a", "i", "l">> >>)

C9_Witness ==
    \E i \in DOMAIN calls :
        /\ calls[i].kind = "ok"
        /\ Consumed(calls[i]) = T_tail
        /\ \E j \in DOMAIN calls[i].trace :
              calls[i].trace[j] = [s |-> "EncounteredQuoteInQuotedField", c |-> "t"]

\* C10: a blank line, a bare "\n" or "\r\n", is returned as a row of its own
\* holding one empty field, at its place among the rows (the second of three
\* for the input of reader_empty_line_in_file).
C10_BlankLine ==
    /\ \A i \in DOMAIN calls :
          Consumed(calls[i]) \in { << LF >>, << CR, LF >> }
              => (calls[i].kind = "ok" /\ calls[i].row = << << >> >>)
    /\ (/\ Len(calls) >= 3
        /\ concat([i \in 1..3 |-> Consumed(calls[i])]) = T_empty_line_in_file)
       => SubSeq(OkRows, 1, 3) =
            << << <<"1">>, <<"2">>, <<"3">> >>, << << >> >>,
               << <<"4">>, <<"5">>, <<"6">> >> >>

C10_Witness ==
    /\ Len(calls) >= 3
    /\ concat([i \in 1..3 |-> Consumed(calls[i])]) = T_empty_line_in_file
    /\ Consumed(calls[2]) = << CR, LF >>
    /\ calls[2].row = << << >> >>

RECURSIVE Sum(_)
Sum(ns) == IF ns = << >> THEN 0 ELSE Head(ns) + Sum(Tail(ns))

\* the bytes the calls 1..i have pulled from the source
PulledUpTo(i) == Sum([k \in 1..i |-> Sum(calls[k].pulls)])

\* the trace ends with '\n' scanned outside a quoted field
EndsAtNewline(tr) ==
    tr # << >> /\ Last(tr).c = LF /\ Last(tr).s # "InQuotedField"

\* the trace is a record that ends with a delimiter and the line terminator,
\* "\n" or "\r\n"
EndsWithDelimiterAndNewline(tr) ==
    LET n == Len(tr)
        Delim(x) == x.c = options.delimiter /\ x.s # "InQuotedField"
    IN  /\ EndsAtNewline(tr)
        /\ n >= 2
        /\ \/ Delim(tr[n - 1])
           \/ /\ n >= 3
              /\ tr[n - 1].c = CR /\ tr[n - 1].s # "InQuotedField"
              /\ Delim(tr[n - 2])

\* the second record of the input of reader_newline_only_on_last_column
T_newline_only_on_last_column_2 == SubSeq(T_newline_only_on_last_column, 8, 13)

\* C11: a line terminator at the very end of the input ends the last record
\* and gives no further row: the call after the one that scanned the final
\* '\n' returns None; a record that ends with a delimiter and the line
\* terminator has an empty last field.
C11_FinalNewline ==
    \A i \in DOMAIN calls :
        LET e == calls[i]
        IN  /\ (e.kind = "ok" /\ EndsAtNewline(e.trace) /\ ~EndedAtEof(e)
                    /\ PulledUpTo(i) = Len(input0) /\ (i + 1) \in DOMAIN calls)
                => calls[i + 1].kind = "none"
            /\ EndsWithDelimiterAndNewline(e.trace)
                => (e.kind = "ok" /\ Len(e.row) >= 2 /\ Last(e.row) = << >>)

C11_Witness ==
    /\ input0 = T_newline_only_on_last_column
    /\ Len(calls) >= 3
    /\ Consumed(calls[2]) = T_newline_only_on_last_column_2
    /\ EndsWithDelimiterAndNewline(calls[2].trace)
    /\ PulledUpTo(2) = Len(input0)
    /\ calls[2].row = << <<"4">>, <<"5">>, << >> >>
    /\ calls[3].kind = "none"

\* how many '\r' the fields of a row hold
CarriageReturns(row) ==
    Sum([k \in DOMAIN row |-> Cardinality({j \in DOMAIN row[k] : row[k][j] = CR})])

\* C12: a '\r' scanned in state Neutral, InField or after a closing quote is
\* dropped and leaves the scan state as it is; a '\r' scanned inside a quoted
\* field is appended to the field; so the '\r' of a returned row are those
\* that were scanned inside a quoted field.
C12_CarriageReturn ==
    /\ [][ /\ (\/ Scanning("Neutral", {CR})
               \/ Scanning("InField", {CR})
               \/ Scanning("EncounteredQuoteInQuotedField", {CR}))
                => UNCHANGED << state, row_data, column_buffer >>
           /\ Scanning("InQuotedField", {CR}) => Appends("InQuotedField") ]_vars
    /\ [](\A i \in DOMAIN calls :
            LET e == calls[i]
            IN  e.kind = "ok" =>
                  /\ CarriageReturns(e.row) =
                       Cardinality({j \in DOMAIN e.trace :
                           e.trace[j].c = CR /\ e.trace[j].s = "InQuotedField"})
                  /\ Consumed(e) = SubSeq(T_carriage_return_after_quoted, 1, 11)
                       => e.row = << <<"1">>, <<"2">>, <<"3", "9">> >>)

C12_Witness ==
    \E i \in DOMAIN calls :
        LET e == calls[i]
        IN  /\ e.kind = "ok"
            /\ \E j \in DOMAIN e.trace : e.trace[j] = [s |-> "InQuotedField", c |-> CR]
            /\ \E j \in DOMAIN e.trace :
                  e.trace[j] = [s |-> "EncounteredQuoteInQuotedField", c |-> CR]
            /\ e.row = << << CR >> >>

RECURSIVE join(_, _)
join(parts, sep) ==
    IF parts = << >> THEN << >>
    ELSE IF Len(parts) = 1 THEN parts[1]
    ELSE parts[1] \o sep \o join(Tail(parts), sep)

\* the field holds a character that makes the writer quote it
NeedsQuotes(f, opts) ==
    \E j \in DOMAIN f : f[j] \in {opts.text_enclosure, opts.delimiter, LF, CR}

\* what the loop of write sends to the sink for one field
field_bytes(f, opts) == concat(write_column(f, 1, FALSE, opts, << >>))

\* the line terminator write_calls puts before the row of a logged call
Terminator(e) == IF e.row_written THEN newline_bytes(w_options) ELSE << >>

\* C13: with a delimiter or a quote character that is not the default one,
\* ',' and '"' are ordinary characters: the reader appends them to the field
\* in every state, starts a new field only at the configured delimiter (or
\* ends the row at '\n') and enters a quoted field only at the configured
\* quote; the writer sends a row whose fields hold none of the configured
\* characters, '\n', '\r' as its fields joined by the delimiter.
C13_ConfiguredCharactersOnly ==
    /\ [][ /\ \A c \in {",", "\""} \ {options.delimiter, options.text_enclosure} :
                /\ Scanning("Neutral", {c}) => Appends("InField")
                /\ Scanning("InField", {c}) => Appends("InField")
                /\ Scanning("InQuotedField", {c}) => Appends("InQuotedField")
                /\ Scanning("EncounteredQuoteInQuotedField", {c}) => Appends("InField")
           /\ (pc = "scan" /\ ci <= Len(line)) =>
                /\ Len(row_data') > Len(row_data) => line[ci] \in {options.delimiter, LF}
                /\ (state # "InQuotedField" /\ state' = "InQuotedField")
                      => line[ci] = options.text_enclosure ]_vars
    /\ [](\A i \in DOMAIN calls :
            LET e == calls[i]
                r123 == << <<"1">>, <<"2">>, <<"3">> >>
            IN  /\ (e.kind = "ok" /\ options = [delimiter |-> "|", text_enclosure |-> "\""]
                        /\ Consumed(e) = SubSeq(T_different_delimiter, 1, 7))
                    => e.row = r123
                /\ (e.kind = "ok" /\ options = [delimiter |-> ",", text_enclosure |-> "#"]
                        /\ Consumed(e) = SubSeq(T_custom_text_enclosing_char, 1, 9))
                    => e.row = r123)
    /\ [](\A i \in DOMAIN w_calls :
            LET e == w_calls[i]
                row == rows[e.row]
            IN  (e.ok /\ \A k \in DOMAIN row : ~NeedsQuotes(row[k], w_options))
                    => e.bytes = Terminator(e) \o join(row, << w_options.delimiter >>))

C13_Witness ==
    /\ options = [delimiter |-> "|", text_enclosure |-> "#"]
    /\ \E i \in DOMAIN calls :
          /\ calls[i].kind = "ok"
          /\ Consumed(calls[i]) = << "\"", "|", "," >>
          /\ calls[i].row = << << "\"" >>, << "," >> >>

\* C14: the writer wraps a field in quote characters if and only if the field
\* holds the configured quote, the configured delimiter, '\n' or '\r'; any
\* other field, the empty one too, is sent as its own bytes.
C14_QuotedIffNeeded ==
    \A i \in DOMAIN w_calls :
        LET e == w_calls[i]
            row == rows[e.row]
            q == w_options.text_enclosure
        IN  /\ \A k \in DOMAIN row :
                LET f == row[k]
                    b == field_bytes(f, w_options)
                IN  /\ NeedsQuotes(f, w_options)
                        <=> (Len(b) >= Len(f) + 2 /\ b[1] = q /\ b[Len(b)] = q)
                    /\ ~NeedsQuotes(f, w_options) => b = f
            /\ (e.ok /\ Len(row) = 1)
                    => e.bytes = Terminator(e) \o field_bytes(row[1], w_options)

C14_Witness ==
    /\ w_options = DefaultWriterOptions
    /\ \E i \in DOMAIN w_calls :
          /\ w_calls[i].ok
          /\ rows[w_calls[i].row] = << << CR >>, << >> >>
          /\ w_calls[i].bytes = << "\"", CR, "\"", "," >>

\* the quoted form of a field: the quote, the characters of the field in
\* order with every quote doubled, the quote
RECURSIVE doubled(_, _)
doubled(f, q) ==
    IF f = << >> THEN << >>
    ELSE (IF Head(f) = q THEN << q, q >> ELSE << Head(f) >>) \o doubled(Tail(f), q)

RefQuoted(f, q) == << q >> \o doubled(f, q) \o << q >>

\* C15: for a field that needs quoting, what the writer sends (the opening
\* quote and the unquoted prefix once the first special character is met, then
\* the rest character by character) is the quoted form of the field.
C15_LazyQuoting ==
    \A i \in DOMAIN w_calls :
        LET e == w_calls[i]
            row == rows[e.row]
            q == w_options.text_enclosure
        IN  /\ \A k \in DOMAIN row :
                NeedsQuotes(row[k], w_options)
                    => field_bytes(row[k], w_options) = RefQuoted(row[k], q)
            /\ (e.ok /\ Len(row) = 1 /\ NeedsQuotes(row[1], w_options))
                    => e.bytes = Terminator(e) \o RefQuoted(row[1], q)

C15_Witness ==
    /\ w_options.text_enclosure = "#"
    /\ \E i \in DOMAIN w_calls :
          /\ w_calls[i].ok
          /\ rows[w_calls[i].row] = << << "a", "#", "a" >> >>
          /\ w_calls[i].bytes = << "#", "a", "#", "#", "a", "#" >>

\* the encoding of a row: its fields, quoted where they need it, joined by
\* the delimiter
RefRow(row, opts) ==
    join([k \in DOMAIN row |->
            IF NeedsQuotes(row[k], opts)
            THEN RefQuoted(row[k], opts.text_enclosure) ELSE row[k]],
         << opts.delimiter >>)

RefTerminator(opts) ==
    IF opts.newline_type = "UnixStyle" THEN << LF >>
    ELSE IF opts.newline_type = "WindowsStyle" THEN << CR, LF >>
    ELSE opts.custom

\* C16: after calls of write that all succeeded the sink holds the encodings
\* of the rows written, in order, joined by the configured line terminator,
\* with none before the first and none after the last.
C16_SinkLayout ==
    (\A i \in DOMAIN w_calls : w_calls[i].ok) =>
        writer = join([i \in DOMAIN w_calls |-> RefRow(rows[w_calls[i].row], w_options)],
                      RefTerminator(w_options))

C16_Witness ==
    /\ w_options.newline_type = "Custom"
    /\ Len(w_calls) = 2
    /\ rows = << << << "a" >> >>, << << >>, << >> >> >>
    /\ writer = << "a", ";", ";", "," >>

\* the writes the logged call had to make on the sink: write_all of no bytes
\* makes none
SinkWrites(e) ==
    SelectSeq(write_calls(rows[e.row], w_options, e.row_written),
              LAMBDA chunk : chunk # << >>)

\* the writes made on the sink by the calls 1..i
WritesUpTo(i) == Sum([k \in 1..i |-> w_calls[k].writes])

\* C17: a call of write whose write on the sink fails returns the error at
\* once: it has sent the writes before the failing one, at most a part of the
\* failing one, and nothing after it; what the sink has received stays; the
\* error of a row ends write_all, which tries no later row.
C17_WriteFailure ==
    /\ [][SubSeq(writer', 1, Len(writer)) = writer]_vars
    /\ [](/\ writer = concat([i \in DOMAIN w_calls |-> w_calls[i].bytes])
          /\ (WritesUpTo(Len(w_calls)) >= sink_fail_at) =>
                \E i \in DOMAIN w_calls : ~w_calls[i].ok
          /\ \A i \in DOMAIN w_calls :
                LET e == w_calls[i]
                    ws == SinkWrites(e)
                    m == e.writes
                IN  IF e.ok
                    THEN m = Len(ws) /\ e.bytes = concat(ws)
                    ELSE /\ WritesUpTo(i) = sink_fail_at
                         /\ m \in DOMAIN ws
                         /\ \E p \in 0..sink_partial :
                               /\ p < Len(ws[m])
                               /\ e.bytes = concat(SubSeq(ws, 1, m - 1)) \o SubSeq(ws[m], 1, p)
                         /\ mode = "write_all" =>
                               (i = Len(w_calls) /\ pc = "write_failed" /\ wi = e.row))

C17_Witness ==
    /\ mode = "write_all"
    /\ pc = "write_failed"
    /\ sink_partial = 1
    /\ Len(rows) = 3
    /\ Len(w_calls) = 2
    /\ w_calls[1].ok
    /\ ~w_calls[2].ok
    /\ w_calls[2].writes = 1
    /\ writer = << "a", CR >>

\* the scanner after the characters, from the scanner s
RECURSIVE scan(_, _)
scan(s, chars) ==
    IF chars = << >> THEN s
    ELSE scan(process_char(s, Head(chars), options), Tail(chars))

\* the row the call gives when nothing but the characters it has scanned
\* itself goes into it
OwnRow(e) ==
    LET s == scan([state |-> "Neutral", row_data |-> << >>, column_buffer |-> << >>],
                  Consumed(e))
    IN  IF EndedAtEof(e) THEN eof_flush(s).row_data ELSE s.row_data

\* the reads on the source, among the first n, that failed
FailedReads(n) == {r \in 1..n : Fails(r)}

\* C18: a call whose pull fails returns Some(Err(e)) at once, whatever it has
\* parsed: one error per failed read, and no pull after it in that call; the
\* failed row is not recovered: a row returned by a later call is made of the
\* characters that call scanned itself and of no character of the failed call.
C18_ReadFailure ==
    /\ pc = "idle" =>
          /\ Cardinality({i \in DOMAIN calls : calls[i].kind = "err"})
                = Cardinality(FailedReads(reads))
          /\ reads = Sum([k \in DOMAIN calls |->
                            Len(calls[k].pulls) + (IF calls[k].kind = "err" THEN 1 ELSE 0)])
    /\ \A i \in DOMAIN calls : \A j \in DOMAIN calls :
          (calls[i].kind = "err" /\ i < j /\ calls[j].kind = "ok")
              => calls[j].row = OwnRow(calls[j])

\* C19: the iterator ends the sequence at an error of the source: once it has
\* yielded an Err item, every later call of next returns None.
C19_IteratorEndsOnError ==
    \A i \in DOMAIN items : \A j \in DOMAIN items :
        (items[i].kind = "err" /\ i < j) => items[j].kind = "none"

\* the calls of next_row the client made itself, and those Iterator::next made
DirectCalls == SelectSeq(calls, LAMBDA e : e.client = "next_row")
IteratorCalls == SelectSeq(calls, LAMBDA e : e.client = "iterator")

\* C20: on the same input with the same options the iterator yields what
\* repeated calls of next_row on a second reader return: the same rows in the
\* same order and None at the same position; moving the row vector out and
\* installing a fresh one changes nothing of what the next_row calls made by
\* the iterator do.
C20_IteratorAsNextRow ==
    /\ \A k \in DOMAIN items :
          /\ k <= Len(DirectCalls)
          /\ items[k].kind = DirectCalls[k].kind
          /\ items[k].kind = "ok" => items[k].row = DirectCalls[k].row
    /\ \A k \in DOMAIN IteratorCalls :
          /\ k <= Len(DirectCalls)
          /\ [IteratorCalls[k] EXCEPT !.client = "next_row"] = DirectCalls[k]

C20_Witness ==
    /\ input0 = T_quoted
    /\ client = "iterator"
    /\ pc = "idle"
    /\ Len(items) = 3
    /\ items[1] = [kind |-> "ok", row |-> << <<"1">>, <<"2">>, <<"3">> >>]
    /\ items[2] = [kind |-> "ok", row |-> << <<"4">>, <<"5">>, <<"6">> >>]
    /\ items[3].kind = "none"
    /\ row_data = << >>

\* C21: the EndOfRow arm of process_line is never executed, whatever the
\* input, the delimiter and the quote: a chunk ends at its first '\n', the
\* state becomes EndOfRow at the last character of a chunk only, and the call
\* pulls no chunk after it; the assertion of the arm never fires.
C21_EndOfRowUnreachable ==
    /\ pc # "panicked"
    /\ (pc = "scan" /\ state = "EndOfRow") => ci > Len(line)
    /\ pc = "pull" => state # "EndOfRow"
    /\ \A j \in DOMAIN trace : trace[j].s # "EndOfRow"
    /\ \A i \in DOMAIN calls : \A j \in DOMAIN calls[i].trace :
          calls[i].trace[j].s # "EndOfRow"

C21_Witness ==
    /\ options = [delimiter |-> CR, text_enclosure |-> "\""]
    /\ Len(calls) = 2
    /\ calls[1].kind = "ok" /\ calls[1].end_state = "EndOfRow"
    /\ Consumed(calls[1]) = << CR, LF >>
    /\ calls[1].row = << << >>, << >> >>
    /\ calls[2].kind = "ok" /\ Consumed(calls[2]) = << "a" >>

\* the chunks read_until cuts the bytes into
RECURSIVE Chunks(_)
Chunks(bytes) ==
    IF bytes = << >> THEN 0
    ELSE 1 + Chunks(SubSeq(bytes, Len(read_until(bytes)) + 1, Len(bytes)))

\* what is left of the input from its n-th byte on
InputFrom(n) == SubSeq(input0, n, Len(input0))

\* C22: a call of next_row terminates on a finite input: a turn of its loop
\* takes at least one byte from the source or leaves the loop (the row has
\* ended, or the source has no more bytes), so the call makes at most as
\* many pulls as chunks are left, plus one; a pull of no bytes is the last of
\* the call and finds the source empty.
C22_NextRowTerminates ==
    /\ [][ /\ pc = "pull" => (Len(input_reader') < Len(input_reader) \/ pc' = "idle")
           /\ (pc = "scan" /\ ci > Len(line) /\ state = "EndOfRow") => pc' = "idle"
         ]_vars
    /\ [](/\ Len(pulls) <=
               Chunks(InputFrom(Len(input0) - Len(input_reader) - Sum(pulls) + 1)) + 1
          /\ \A k \in DOMAIN pulls :
                pulls[k] = 0 => (k = Len(pulls) /\ input_reader = << >>)
          /\ \A i \in DOMAIN calls :
                LET e == calls[i]
                IN  /\ Len(e.pulls) <= Chunks(InputFrom(PulledUpTo(i - 1) + 1)) + 1
                    /\ \A k \in DOMAIN e.pulls : e.pulls[k] = 0 => k = Len(e.pulls))

C22_Witness ==
    /\ input0 = << "\"", LF, LF >>
    /\ pc = "idle"
    /\ Len(calls) = 1
    /\ calls[1].kind = "ok"
    /\ calls[1].pulls = << 2, 1, 0 >>
    /\ Chunks(input0) = 2

\* C23: a quote character scanned in state InField is appended to the field
\* and the scanner stays in InField; from outside a quoted field the scanner
\* enters one only from state Neutral, at a quote character; `a"a"` is the
\* one field `a"a"`, and `""a"` is the one field `a"`.
C23_QuoteInUnquotedField ==
    /\ [][ /\ Scanning("InField", {options.text_enclosure}) => Appends("InField")
           /\ Scanning("Neutral", {options.text_enclosure}) =>
                /\ state' = "InQuotedField"
                /\ UNCHANGED << row_data, column_buffer >>
           /\ (pc = "scan" /\ ci <= Len(line) /\ state \in {"Neutral", "InField"}
                  /\ state' = "InQuotedField")
                => (state = "Neutral" /\ line[ci] = options.text_enclosure) ]_vars
    /\ [](\A i \in DOMAIN calls :
            LET e == calls[i]
            IN  /\ (e.kind = "ok" /\ Consumed(e) = << "a", "\"", "a", "\"" >>)
                    => e.row = << << "a", "\"", "a", "\"" >> >>
                /\ (e.kind = "ok" /\ Consumed(e) = << "\"", "\"", "a", "\"" >>)
                    => e.row = << << "a", "\"" >> >>)

C23_Witness ==
    \E i \in DOMAIN calls :
        /\ calls[i].kind = "ok"
        /\ Consumed(calls[i]) = << "\"", "\"", "a", "\"" >>
        /\ calls[i].trace[3] = [s |-> "EncounteredQuoteInQuotedField", c |-> "a"]
        /\ calls[i].trace[4] = [s |-> "InField", c |-> "\""]
        /\ calls[i].row = << << "a", "\"" >> >>

\* the fields the call has completed: one for each delimiter or '\n' scanned
\* outside a quoted field, and one for the field pending at the end of input
FieldsCompleted(e) ==
    Cardinality({j \in DOMAIN e.trace :
                    e.trace[j].s # "InQuotedField"
                        /\ e.trace[j].c \in {options.delimiter, LF}})
        + (IF EndedAtEof(e) /\ e.pending # << >> THEN 1 ELSE 0)

\* the field buffer the i-th call found at its entry
BufferAtEntry(i) == IF i > 1 THEN calls[i - 1].pending ELSE << >>

\* the row the scanner builds from state Neutral and an empty row, over the
\* characters of the i-th call
RowBuiltBy(i) ==
    LET e == calls[i]
        s == scan([state |-> "Neutral", row_data |-> << >>,
                   column_buffer |-> BufferAtEntry(i)], Consumed(e))
    IN  IF EndedAtEof(e) THEN eof_flush(s).row_data ELSE s.row_data

\* C24: every call of next_row starts in state Neutral with an empty row, so
\* the row it returns is the fields it has completed itself, in their order:
\* as many fields as the call has closed, built from an empty row; the fields
\* of the row of an earlier call, a call that ended with a read error
\* included, are not in it.
C24_RowResetAtEntry ==
    /\ [][(pc = "idle" /\ pc' = "pull") => (state' = "Neutral" /\ row_data' = << >>)]_vars
    /\ []((pc = "pull" /\ pulls = << >>) => (state = "Neutral" /\ row_data = << >>))
    /\ [](\A i \in DOMAIN calls :
            calls[i].kind = "ok" =>
                /\ Len(calls[i].row) = FieldsCompleted(calls[i])
                /\ calls[i].row = RowBuiltBy(i))

C24_Witness ==
    /\ input0 = AbandonedRowInput
    /\ fail_at = 2 /\ ~fail_sticky
    /\ pc = "idle"
    /\ Len(calls) = 2
    /\ calls[1].kind = "err"
    /\ calls[1].scanned_row = << << >> >>
    /\ calls[2].kind = "ok"
    /\ Len(calls[2].row) = 1
    /\ FieldsCompleted(calls[2]) = 1

\* C25: when next_row returns Some(Ok(row)) or None the field buffer is
\* empty; hence, as long as no call has returned an error, a call starts with
\* an empty field buffer.
C25_FieldBufferEmptyAtReturn ==
    /\ (pc = "idle" /\ calls # << >> /\ Last(calls).kind \in {"ok", "none"})
          => column_buffer = << >>
    /\ (pc = "pull" /\ pulls = << >> /\ \A i \in DOMAIN calls : calls[i].kind # "err")
          => column_buffer = << >>

\* C26: every row returned as Some(Ok(row)) has at least one field.
C26_AtLeastOneField ==
    \A i \in DOMAIN calls : calls[i].kind = "ok" => Len(calls[i].row) >= 1

\* C27: the end of the sequence is stable: once a call has returned None,
\* every later call on the same reader returns None and leaves the reader as
\* the first None left it (state Neutral, no row, no pending field, nothing
\* in the line buffer); the same for the items of the iterator.
C27_EndOfSequenceStable ==
    /\ \A i \in DOMAIN calls : \A j \in DOMAIN calls :
          (i < j /\ calls[i].kind = "none" /\ calls[j].client = calls[i].client)
              => /\ calls[j].kind = "none"
                 /\ calls[j].row = calls[i].row
                 /\ calls[j].end_state = calls[i].end_state
                 /\ calls[j].scanned_row = calls[i].scanned_row
                 /\ calls[j].pending = calls[i].pending
                 /\ calls[j].trace = << >>
    /\ \A i \in DOMAIN items : \A j \in DOMAIN items :
          (i < j /\ items[i].kind = "none") => items[j].kind = "none"
    /\ (pc = "idle" /\ calls # << >> /\ Last(calls).kind = "none"
            /\ Last(calls).client = client)
          => /\ state = "Neutral"
             /\ row_data = << >>
             /\ column_buffer = << >>
             /\ line_bytes = << >>
             /\ input_reader = << >>

C27_Witness ==
    /\ input0 = << "a" >>
    /\ client = "iterator"
    /\ pc = "idle"
    /\ Len(DirectCalls) = 4
    /\ Len(items) = 4
    /\ items[1] = [kind |-> "ok", row |-> << << "a" >> >>]
    /\ \A k \in 2..4 : items[k].kind = "none" /\ DirectCalls[k].kind = "none"

\* C28: row_written is false at construction and becomes true only when a
\* call of write returns Ok; a call that fails leaves it as it was; so after
\* a first call that failed part-way the next call sends its fields without
\* a line terminator before them.
C28_RowWrittenFlag ==
    /\ [][row_written' # row_written =>
            (~row_written /\ row_written' /\ Last(w_calls').ok)]_vars
    /\ [](/\ row_written = (\E k \in DOMAIN w_calls : w_calls[k].ok)
          /\ \A i \in DOMAIN w_calls :
                w_calls[i].row_written = (\E k \in 1..(i - 1) : w_calls[k].ok)
          /\ (Len(w_calls) >= 2 /\ ~w_calls[1].ok /\ w_calls[2].ok)
                => w_calls[2].bytes = RefRow(rows[w_calls[2].row], w_options))

C28_Witness ==
    /\ mode = "write"
    /\ rows = << << << "," >> >>, << << "a" >> >> >>
    /\ Len(w_calls) = 2
    /\ ~w_calls[1].ok /\ w_calls[1].bytes = << "\"" >>
    /\ w_calls[2].ok /\ w_calls[2].bytes = << "a" >>
    /\ writer = << "\"", "a" >>
    /\ row_written

====
